---------------------------- MODULE Spec2Model ----------------------------
(***************************************************************************)
(* A model of src/src/components/SphereGeometry.tsx: the React component   *)
(* state (markers, geodesicLines, angleInfo, planarAngleInfo), the two     *)
(* event handlers handleMarkerClick (AddPoint) and clearMarkers (Clear),   *)
(* and the pure geometry functions they call.                              *)
(*                                                                         *)
(* Numbers.  JavaScript numbers are IEEE-754 doubles.  The model keeps     *)
(* lengths and coordinates in thousandths (One = 1.0), angles in whole     *)
(* degrees, and the IEEE value NaN as a reserved value.  The points the    *)
(* model adds are the axis points of the unit sphere, for which every      *)
(* dot product, length and angle below is exact at this resolution.        *)
(***************************************************************************)
EXTENDS Integers, Sequences, FiniteSets, TLC

VARIABLES
  markers,          \* useState<Marker[]>, line 278: latest value set
  geodesicLines,    \* useState<GeodesicLine[]>, line 279
  angleInfo,        \* useState<AngleInfo[]>, line 280
  planarAngleInfo,  \* useState<AngleInfo[]>, line 281
  handlerMarkers,   \* the `markers` captured by the handleMarkerClick closure
                    \* of the last render (useCallback(..., [markers]), line 511)
  now,              \* Date.now(), in milliseconds
  lastOp,           \* history: the last of AddPoint and Clear that ran
  hullInput,        \* argument of the last direct call of the HullOrderer
  hullResult,       \* what that call returned
  angleInput,       \* argument of the last direct call of the AngleEngine
  angleResult       \* what that call returned

vars == <<markers, geodesicLines, angleInfo, planarAngleInfo, handlerMarkers,
          now, lastOp, hullInput, hullResult, angleInput, angleResult>>

-----------------------------------------------------------------------------
(* Bounds of the model *)

\* most points one handleMarkerClick call may end up with
MaxPoints == 4
\* last value of the millisecond clock
MaxClock == 1
\* longest argument of a direct HullOrderer call
MaxHullLen == 4
MaxAngleLen == 4

-----------------------------------------------------------------------------
(* Numbers *)

\* the radius of the sphere (line 67), 1.0, in thousandths
One == 1000

\* IEEE NaN: a reserved value no finite result takes
NaN == 2 * 10^9

\* IEEE +Infinity
Infinity == 10^9

Abs(v) == IF v < 0 THEN -v ELSE v

\* n / d rounded to the nearest integer, d > 0
RoundDiv(n, d) == (2 * n + d) \div (2 * d)

\* the JavaScript division n / d of finite numbers, the quotient scaled by
\* `scale`: 0/0 is NaN, x/0 is +-Infinity
Div(n, d, scale) ==
  IF d = 0
  THEN IF n = 0 THEN NaN ELSE IF n > 0 THEN Infinity ELSE -Infinity
  ELSE IF d > 0 THEN RoundDiv(n * scale, d) ELSE RoundDiv(-n * scale, -d)

RECURSIVE SqrtBetween(_, _, _)
\* the largest r in lo..hi with r*r <= n
SqrtBetween(n, lo, hi) ==
  IF lo >= hi THEN lo
  ELSE LET mid == (lo + hi + 1) \div 2
       IN IF mid * mid <= n THEN SqrtBetween(n, mid, hi)
          ELSE SqrtBetween(n, lo, mid - 1)

\* Math.sqrt to the nearest integer, 0 <= n < 2^30
Sqrt(n) ==
  LET r == SqrtBetween(n, 0, 32767)
  IN IF n - r * r > r THEN r + 1 ELSE r

\* cos of 0..90 degrees, in millionths
CosTable ==
  << 1000000, 999848, 999391, 998630, 997564, 996195, 994522, 992546, 990268,
     987688, 984808, 981627, 978148, 974370, 970296, 965926, 961262, 956305,
     951057, 945519, 939693, 933580, 927184, 920505, 913545, 906308, 898794,
     891007, 882948, 874620, 866025, 857167, 848048, 838671, 829038, 819152,
     809017, 798636, 788011, 777146, 766044, 754710, 743145, 731354, 719340,
     707107, 694658, 681998, 669131, 656059, 642788, 629320, 615661, 601815,
     587785, 573576, 559193, 544639, 529919, 515038, 500000, 484810, 469472,
     453990, 438371, 422618, 406737, 390731, 374607, 358368, 342020, 325568,
     309017, 292372, 275637, 258819, 241922, 224951, 207912, 190809, 173648,
     156434, 139173, 121869, 104528, 87156, 69756, 52336, 34899, 17452, 0 >>

\* Math.cos of d degrees, 0 <= d <= 180, in millionths
CosMicro(d) == IF d <= 90 THEN CosTable[d + 1] ELSE -CosTable[181 - d]

\* Math.sin of d degrees, 0 <= d < 180, in thousandths.  (Math.sin(Math.PI) is
\* not 0 in IEEE arithmetic: calculateGeodesic treats that angle apart.)
SinMilli(d) == RoundDiv(CosMicro(IF d <= 90 THEN 90 - d ELSE d - 90), 1000)

\* Math.max(-1, Math.min(1, v)); both return NaN for a NaN argument
Clamp(v) ==
  IF v = NaN THEN NaN
  ELSE IF v > One THEN One ELSE IF v < -One THEN -One ELSE v

\* the whole number of degrees nearest to the arc cosine of c thousandths:
\* the number of degrees e whose half-way mark cos(e - 1/2) lies above c
AcosTable ==
  [c \in (-One)..One |->
     Cardinality({e \in 1..180 : CosMicro(e - 1) + CosMicro(e) > 2000 * c})]

\* Math.acos(c) * 180 / Math.PI to the nearest degree, c in thousandths
\* (Math.acos(NaN) is NaN)
AcosDeg(c) == IF c = NaN THEN NaN ELSE AcosTable[c]

\* Math.atan2(y, x) in degrees, in -179..180; atan2(0, 0) is 0
Atan2Deg(y, x) ==
  IF y = 0 THEN (IF x >= 0 THEN 0 ELSE 180)
  ELSE LET d == AcosDeg(Div(x, Sqrt(x * x + y * y), One))
       IN IF y > 0 THEN d ELSE -d

\* Number.prototype.toFixed(1) of a whole number of degrees
ToFixed1(v) == IF v = NaN THEN "NaN" ELSE ToString(v) \o ".0"

-----------------------------------------------------------------------------
(* THREE.Vector3 *)

Vec(x, y, z) == [x |-> x, y |-> y, z |-> z]

\* a.dot(b), in thousandths
Dot(a, b) == RoundDiv(a.x * b.x + a.y * b.y + a.z * b.z, One)

\* a.sub(b)
VSub(a, b) == Vec(a.x - b.x, a.y - b.y, a.z - b.z)

\* a.multiplyScalar(s), s in thousandths
MultiplyScalar(a, s) ==
  Vec(RoundDiv(a.x * s, One), RoundDiv(a.y * s, One), RoundDiv(a.z * s, One))

\* a.length()
Length(a) == Sqrt(a.x * a.x + a.y * a.y + a.z * a.z)

\* a.distanceTo(b)
DistanceTo(a, b) == Length(VSub(a, b))

\* a divided by its length len; a zero vector stays zero (three.js divides
\* by length || 1)
DivideByLength(a, len) ==
  IF len = 0 THEN a
  ELSE Vec(Div(a.x, len, One), Div(a.y, len, One), Div(a.z, len, One))

\* a.normalize()
Normalize(a) == DivideByLength(a, Length(a))

\* a.cross(b), in thousandths
Cross(a, b) ==
  Vec(RoundDiv(a.y * b.z - a.z * b.y, One),
      RoundDiv(a.z * b.x - a.x * b.z, One),
      RoundDiv(a.x * b.y - a.y * b.x, One))

-----------------------------------------------------------------------------
(* HullOrderer: calculateSphericalConvexHull, lines 327-367 *)

\* lines 335-345: the polar coordinates of every marker
pointsWithCoords(ms) ==
  [i \in 1..Len(ms) |->
     [marker |-> ms[i],
      phi    |-> AcosDeg(Clamp(ms[i].position.z)),
      theta  |-> Atan2Deg(ms[i].position.y, ms[i].position.x)]]

\* a variant: the comparator without the seam rule of lines 354-360
compareTheta_noWrap(a, b) == a.theta - b.theta

\* lines 348-363: the comparator handed to Array.prototype.sort; Math.PI is 180
compareTheta(a, b) ==
  LET far    == Abs(a.theta - b.theta) > 180
      angleA == IF far /\ a.theta < b.theta THEN a.theta + 360 ELSE a.theta
      angleB == IF far /\ ~(a.theta < b.theta) THEN b.theta + 360 ELSE b.theta
  IN angleA - angleB

\* ECMA-262, Array.prototype.sort: a comparator is a consistent comparison
\* function for the elements when = , < and > under it are transitive and
\* agree with one another
ConsistentComparator(pwc) ==
  LET I == DOMAIN pwc
      c(i, j) == compareTheta(pwc[i], pwc[j])
  IN /\ \A i, j \in I : (c(i, j) = 0) = (c(j, i) = 0)
     /\ \A i, j \in I : (c(i, j) < 0) = (c(j, i) > 0)
     /\ \A i, j, k \in I : c(i, j) = 0 /\ c(j, k) = 0 => c(i, k) = 0
     /\ \A i, j, k \in I : c(i, j) < 0 /\ c(j, k) < 0 => c(i, k) < 0
     /\ \A i, j, k \in I : c(i, j) < 0 /\ c(j, k) = 0 => c(i, k) < 0
     /\ \A i, j, k \in I : c(i, j) = 0 /\ c(j, k) < 0 => c(i, k) < 0

\* the orders Array.prototype.sort may leave pwc in, as permutations of its
\* indices: the stable ascending order when the comparator is consistent,
\* and an implementation-defined order (any permutation) when it is not
sortOrders(pwc) ==
  LET I == DOMAIN pwc
      c(i, j) == compareTheta(pwc[i], pwc[j])
  IN IF ConsistentComparator(pwc)
     THEN {p \in Permutations(I) :
             \A i, j \in I :
               i < j => \/ c(p[i], p[j]) < 0
                        \/ c(p[i], p[j]) = 0 /\ p[i] < p[j]}
     ELSE Permutations(I)

\* line 366: pointsWithCoords.map(p => p.marker), for every order the sort
\* may have left
sortedMarkers(pwc) ==
  {[i \in DOMAIN pwc |-> pwc[p[i]].marker] : p \in sortOrders(pwc)}

\* a variant: the `=== 3` return of line 329 missing, three points are sorted
calculateSphericalConvexHull_sorts3(ms) ==
  IF Len(ms) < 3 THEN {[result |-> ms, argument |-> ms]}
  ELSE {[result |-> r, argument |-> ms] :
          r \in sortedMarkers(pointsWithCoords(ms))}

\* a variant: line 332 without the copy (const points = markers), so that the
\* sort reorders the caller's array
calculateSphericalConvexHull_inPlace(ms) ==
  IF Len(ms) < 3 THEN {[result |-> ms, argument |-> ms]}
  ELSE IF Len(ms) = 3 THEN {[result |-> ms, argument |-> ms]}
  ELSE {[result |-> r, argument |-> r] :
          r \in sortedMarkers(pointsWithCoords(ms))}

\* calculateSphericalConvexHull(markers): the set of outcomes of the call (one
\* outcome, unless the sort is implementation-defined).  result is the array
\* returned; argument is the caller's array after the call, which the sort
\* leaves alone because it works on the copy made at line 332.
calculateSphericalConvexHull(ms) ==
  IF Len(ms) < 3 THEN {[result |-> ms, argument |-> ms]}
  ELSE IF Len(ms) = 3 THEN {[result |-> ms, argument |-> ms]}
  ELSE {[result |-> r, argument |-> ms] :
          r \in sortedMarkers(pointsWithCoords(ms))}

-----------------------------------------------------------------------------
(* GeodesicInterpolator: calculateGeodesic, lines 300-323 *)

\* line 302
segments == 30

\* (Math.sin((1 - t) * Math.PI) - Math.sin(t * Math.PI)) / Math.sin(Math.PI)
\* for t = i / 30, i = 0..30, in thousandths, as IEEE doubles evaluate it:
\* Math.sin(Math.PI) is 1.2246e-16, not 0, so the quotient of the rounding
\* residues is a finite number (the digits vary with the sine routine; that
\* they are finite, and not on the sphere, does not)
AntipodalQuotient ==
  << 1000, 2266, 0, 907, -907, 0, 907, 907, 907, 0, -907, 907, 907, 0, 907, 0,
     -907, 0, -907, -907, 0, 0, -907, 0, -1813, -907, 907, -1360, -227, -2380,
     -1000 >>

\* lines 309-317: one coordinate of sample i, from the start and end coordinate.
\* angle = 180 only for end = -start, where the quotient is of two residues.
slerpCoordinate(s, e, angle, i) ==
  IF angle = 180
  THEN RoundDiv(s * AntipodalQuotient[i + 1], One)
  ELSE LET sinAngle    == SinMilli(angle)
           sinT        == SinMilli((i * angle) \div segments)
           sin1MinusT  == SinMilli(((segments - i) * angle) \div segments)
       IN Div(RoundDiv(s * sin1MinusT + e * sinT, One), sinAngle, One)

\* calculateGeodesic(start, end): the segments + 1 samples
calculateGeodesic(start, end) ==
  LET angle == AcosDeg(Clamp(Dot(start, end)))
  IN [k \in 1..(segments + 1) |->
        Vec(slerpCoordinate(start.x, end.x, angle, k - 1),
            slerpCoordinate(start.y, end.y, angle, k - 1),
            slerpCoordinate(start.z, end.z, angle, k - 1))]

-----------------------------------------------------------------------------
(* AngleEngine: calculatePlanarAngles 370-398, calculateSphericalAngles 401-465 *)

\* markers[(i - 1 + n) % n] and markers[(i + 1) % n] for the 1-based index i
PrevIndex(i, n) == ((i - 2 + n) % n) + 1
NextIndex(i, n) == (i % n) + 1

\* an AngleInfo; label is `${angle.toFixed(1)}°`
angleRecord(vertex, angle) ==
  [vertex |-> vertex, angle |-> angle, label |-> ToFixed1(angle) \o "°"]

\* lines 387-388: the planar law of cosines on the side lengths a, b, c
planarAngle(a, b, c) ==
  AcosDeg(Clamp(Div(RoundDiv(a * a + b * b - c * c, One),
                    RoundDiv(2 * a * b, One), One)))

\* lines 376-394: the record of vertex i
planarAngleAt(ms, i) ==
  LET prev    == ms[PrevIndex(i, Len(ms))]
      current == ms[i]
      next    == ms[NextIndex(i, Len(ms))]
  IN angleRecord(current.position,
                 planarAngle(DistanceTo(prev.position, current.position),
                             DistanceTo(current.position, next.position),
                             DistanceTo(next.position, prev.position)))

calculatePlanarAngles(ms) ==
  IF Len(ms) < 3 THEN << >>
  ELSE [i \in 1..Len(ms) |-> planarAngleAt(ms, i)]

\* lines 422-426: the projection of the neighbour P on the tangent plane at Pi
\* a click at (0.707, 0.707, 0); line 415 normalizes it to
\* (0.7071067811865475, 0.7071067811865475, 0)
diag == Vec(707, 707, 0)
diagUnit == Normalize(diag)

\* lines 422-426 when the neighbour is the vertex itself, in doubles: for an
\* axis point Pi.dot(Pi) is 1 and the difference is the zero vector; for
\* diagUnit Pi.dot(Pi) is 0.9999999999999998 and the difference is
\* (1.1102230246251565e-16, 1.1102230246251565e-16, 0), kept here at the
\* length One: line 432 reads only whether its length is 0, lines 442-448
\* only its direction
selfTangent(Pi) ==
  IF Pi = diagUnit THEN Vec(707, 707, 0)
  ELSE VSub(Pi, MultiplyScalar(Pi, Dot(Pi, Pi)))

\* lines 425-426: P - (Pi . P) Pi
tangentVector(Pi, P) ==
  IF P = Pi THEN selfTangent(Pi)
  ELSE VSub(P, MultiplyScalar(Pi, Dot(Pi, P)))

\* a variant: the orientation test of line 453 reversed (normalDot < 0)
orientedAngle_flipped(Pi, v1, v2, v1Length, v2Length) ==
  LET dotProduct == Div(Dot(v1, v2), RoundDiv(v1Length * v2Length, One), One)
      angle      == AcosDeg(Clamp(dotProduct))
      normalDot  == Dot(Cross(v1, v2), Pi)
  IN IF normalDot < 0 THEN 360 - angle ELSE angle

\* a variant: the angle of line 443 without the correction of lines 453-455
orientedAngle_uncorrected(Pi, v1, v2, v1Length, v2Length) ==
  AcosDeg(Clamp(Div(Dot(v1, v2), RoundDiv(v1Length * v2Length, One), One)))

\* lines 442-455: the angle between the tangent vectors, with the orientation
\* correction
orientedAngle(Pi, v1, v2, v1Length, v2Length) ==
  LET dotProduct == Div(Dot(v1, v2), RoundDiv(v1Length * v2Length, One), One)
      angle      == AcosDeg(Clamp(dotProduct))
      normalDot  == Dot(Cross(v1, v2), Pi)
  IN IF normalDot > 0 THEN 360 - angle ELSE angle

\* lines 429-461: the record of a vertex from its two tangent vectors
sphericalAngleRecord(vertex, Pi, v1, v2, v1Length, v2Length) ==
  IF v1Length = 0 \/ v2Length = 0
  THEN [vertex |-> vertex, angle |-> 0, label |-> "0.0°"]
  ELSE angleRecord(vertex, orientedAngle(Pi, v1, v2, v1Length, v2Length))

\* lines 422-461, from the normalized vertex and neighbours
sphericalAngleFrom(vertex, Pi, Pi_prev, Pi_next) ==
  sphericalAngleRecord(vertex, Pi,
                       tangentVector(Pi, Pi_prev), tangentVector(Pi, Pi_next),
                       Length(tangentVector(Pi, Pi_prev)),
                       Length(tangentVector(Pi, Pi_next)))

\* lines 407-461: the record of vertex i
sphericalAngleAt(ms, i) ==
  sphericalAngleFrom(ms[i].position,
                     Normalize(ms[i].position),
                     Normalize(ms[PrevIndex(i, Len(ms))].position),
                     Normalize(ms[NextIndex(i, Len(ms))].position))

calculateSphericalAngles(ms) ==
  IF Len(ms) < 3 THEN << >>
  ELSE [i \in 1..Len(ms) |-> sphericalAngleAt(ms, i)]

-----------------------------------------------------------------------------
(* GeometryPipeline: the SphereGeometry component, lines 277-525 *)

ex == Vec(One, 0, 0)
ey == Vec(0, One, 0)
ez == Vec(0, 0, One)

\* the positions a click may deliver: points of the unit sphere
Positions == {ex, ey, ez, Vec(-One, 0, 0)}

\* calculateGeodesic on every pair of positions, evaluated once
GeodesicOf ==
  [start \in Positions |->
     [end \in Positions |-> calculateGeodesic(start, end)]]

\* a variant: the loop of line 484 stopping before the closing arc
\* (i < hullMarkers.length - 1)
newLines_noWrap(hullMarkers) ==
  [i \in 1..(Len(hullMarkers) - 1) |->
     [id     |-> i - 1,
      start  |-> hullMarkers[i].position,
      end    |-> hullMarkers[i + 1].position,
      points |-> GeodesicOf[hullMarkers[i].position]
                           [hullMarkers[i + 1].position]]]

\* lines 484-496: one GeodesicLine per consecutive pair of the cycle
newLines(hullMarkers) ==
  [i \in 1..Len(hullMarkers) |->
     LET start == hullMarkers[i]
         end   == hullMarkers[NextIndex(i, Len(hullMarkers))]
     IN [id     |-> i - 1,
         start  |-> start.position,
         end    |-> end.position,
         points |-> GeodesicOf[start.position][end.position]]]

\* lines 469-473: id is `marker-${Date.now()}`, kept as the clock value
newMarker(position) ==
  [id |-> now, position |-> position, index |-> Len(handlerMarkers)]

\* handleMarkerClick(position), lines 468-511.  `markers` there is the value
\* the closure captured at the render that created the handler.  setMarkers
\* keeps a reference to the newMarkers array, so the state holds that array as
\* the call of line 481 leaves it.
handleMarkerClick(position) ==
  LET newMarkers == Append(handlerMarkers, newMarker(position))
  IN /\ Len(handlerMarkers) < MaxPoints
     /\ IF Len(newMarkers) > 1
        THEN \E hull \in calculateSphericalConvexHull(newMarkers) :
               /\ markers' = hull.argument
               /\ geodesicLines' = newLines(hull.result)
               /\ IF Len(hull.result) >= 3
                  THEN /\ angleInfo' = calculateSphericalAngles(hull.result)
                       /\ planarAngleInfo' = calculatePlanarAngles(hull.result)
                  ELSE /\ angleInfo' = << >>
                       /\ planarAngleInfo' = << >>
        ELSE /\ markers' = newMarkers
             /\ UNCHANGED <<geodesicLines, angleInfo, planarAngleInfo>>
     /\ lastOp' = "add"
     /\ UNCHANGED <<handlerMarkers, now, hullInput, hullResult,
                 angleInput, angleResult>>

\* a variant: clearMarkers without setPlanarAngleInfo([])
clearMarkers_keepsPlanar ==
  /\ markers' = << >>
  /\ geodesicLines' = << >>
  /\ angleInfo' = << >>
  /\ lastOp' = "clear"
  /\ UNCHANGED <<planarAngleInfo, handlerMarkers, now, hullInput, hullResult,
                 angleInput, angleResult>>

\* a variant: clearMarkers without setAngleInfo([])
clearMarkers_keepsAngles ==
  /\ markers' = << >>
  /\ geodesicLines' = << >>
  /\ planarAngleInfo' = << >>
  /\ lastOp' = "clear"
  /\ UNCHANGED <<angleInfo, handlerMarkers, now, hullInput, hullResult,
                 angleInput, angleResult>>

\* clearMarkers(), lines 514-519
clearMarkers ==
  /\ markers' = << >>
  /\ geodesicLines' = << >>
  /\ angleInfo' = << >>
  /\ planarAngleInfo' = << >>
  /\ lastOp' = "clear"
  /\ UNCHANGED <<handlerMarkers, now, hullInput, hullResult,
                 angleInput, angleResult>>

\* a re-render of SphereGeometry: useCallback(..., [markers]) at line 511
\* makes a handler that closes over the current markers
Render ==
  /\ handlerMarkers # markers
  /\ handlerMarkers' = markers
  /\ UNCHANGED <<markers, geodesicLines, angleInfo, planarAngleInfo, now,
                 lastOp, hullInput, hullResult,
                 angleInput, angleResult>>

\* the millisecond clock behind Date.now() advances
Tick ==
  /\ now < MaxClock
  /\ now' = now + 1
  /\ UNCHANGED <<markers, geodesicLines, angleInfo, planarAngleInfo,
                 handlerMarkers, lastOp, hullInput, hullResult,
                 angleInput, angleResult>>

RECURSIVE SumAngles(_, _)
\* angleInfo.reduce((sum, angle) => sum + angle.angle, 0), from element k on
SumAngles(infos, k) ==
  IF k > Len(infos) THEN 0
  ELSE LET rest == SumAngles(infos, k + 1)
       IN IF infos[k].angle = NaN \/ rest = NaN THEN NaN
          ELSE infos[k].angle + rest

\* a variant: the closed form counts n - 1 triangles instead of n - 2
totalPlanarAngle_oneTooMany ==
  IF Len(markers) >= 3 THEN (Len(markers) - 1) * 180 ELSE 0

\* lines 522-525, as a render of the current state computes them
totalSphericalAngle == SumAngles(angleInfo, 1)
totalPlanarAngle == IF Len(markers) >= 3 THEN (Len(markers) - 2) * 180 ELSE 0
angleDifference ==
  IF totalSphericalAngle = NaN THEN NaN
  ELSE totalSphericalAngle - totalPlanarAngle

Init ==
  /\ markers = << >>
  /\ geodesicLines = << >>
  /\ angleInfo = << >>
  /\ planarAngleInfo = << >>
  /\ handlerMarkers = << >>
  /\ now = 0
  /\ lastOp = "none"
  /\ hullInput = << >>
  /\ hullResult = << >>
  /\ angleInput = << >>
  /\ angleResult = << >>

AddPoint == \E position \in Positions : handleMarkerClick(position)

Clear == clearMarkers

\* the events of the component and its re-renders, within one millisecond
Next == AddPoint \/ Clear \/ Render

Spec == Init /\ [][Next]_vars

\* the same with the clock advancing between events
NextClock == AddPoint \/ Clear \/ Render \/ Tick

SpecClock == Init /\ [][NextClock]_vars

-----------------------------------------------------------------------------
(* The HullOrderer called on its own *)

\* unit vectors of azimuth 170 and -170 degrees on the equator
az170 == Vec(-985, 174, 0)
azm170 == Vec(-985, -174, 0)

HullPositions == {ex, ey, ez, az170, azm170}

\* the markers of a list of positions, as successive AddPoint calls number them
MarkersOf(ps) ==
  [i \in 1..Len(ps) |-> [id |-> i, position |-> ps[i], index |-> i - 1]]

HullInputs ==
  UNION {{MarkersOf(ps) : ps \in [1..n -> HullPositions]} : n \in 1..MaxHullLen}

\* a call is pending on hullInput until hullResult holds what it returned
InitHull ==
  /\ markers = << >>
  /\ geodesicLines = << >>
  /\ angleInfo = << >>
  /\ planarAngleInfo = << >>
  /\ handlerMarkers = << >>
  /\ now = 0
  /\ lastOp = "none"
  /\ hullInput \in HullInputs
  /\ hullResult = << >>
  /\ angleInput = << >>
  /\ angleResult = << >>

HullCall ==
  /\ hullResult = << >>
  /\ \E hull \in calculateSphericalConvexHull(hullInput) :
       hullResult' = hull.result
  /\ UNCHANGED <<markers, geodesicLines, angleInfo, planarAngleInfo,
                 handlerMarkers, now, lastOp, hullInput,
                 angleInput, angleResult>>

SpecHull == InitHull /\ [][HullCall]_vars

-----------------------------------------------------------------------------
(* The AngleEngine alone: calculateSphericalAngles applied to one cycle *)

AnglePositions == {ex, ey, ez, diag}

AngleInputs ==
  UNION {{MarkersOf(ps) : ps \in [1..n -> AnglePositions]} : n \in 3..MaxAngleLen}

\* a call is pending on angleInput until angleResult holds what it returned
InitAngles ==
  /\ markers = << >>
  /\ geodesicLines = << >>
  /\ angleInfo = << >>
  /\ planarAngleInfo = << >>
  /\ handlerMarkers = << >>
  /\ now = 0
  /\ lastOp = "none"
  /\ hullInput = << >>
  /\ hullResult = << >>
  /\ angleInput \in AngleInputs
  /\ angleResult = << >>

AngleCall ==
  /\ angleResult = << >>
  /\ angleResult' = calculateSphericalAngles(angleInput)
  /\ UNCHANGED <<markers, geodesicLines, angleInfo, planarAngleInfo,
                 handlerMarkers, now, lastOp, hullInput, hullResult,
                 angleInput>>

SpecAngles == InitAngles /\ [][AngleCall]_vars

-----------------------------------------------------------------------------
(* The claims *)

PositionsOf(ms) == [i \in 1..Len(ms) |-> ms[i].position]

\* how many of the markers ms lie at position p
MarkersAt(ms, p) == Cardinality({i \in 1..Len(ms) : ms[i].position = p})

\* how many of the arcs start at position p
ArcsFrom(lines, p) == Cardinality({i \in 1..Len(lines) : lines[i].start = p})

\* C1: every AddPoint adds exactly one point to the list, whatever the
\* re-renders between the events: a step of handleMarkerClick leaves the list
\* one longer, with the points it held before in place and index i - 1 at
\* position i, and a step of clearMarkers leaves it empty; so the list holds
\* exactly the points added since the last Clear, in insertion order.
C1_EveryAddPointAppends ==
  [][ /\ (lastOp' = "add" /\ handlerMarkers' = handlerMarkers)
         => /\ Len(markers') = Len(markers) + 1
            /\ SubSeq(markers', 1, Len(markers)) = markers
            /\ \A i \in 1..Len(markers') : markers'[i].index = i - 1
      /\ (lastOp' = "clear" => markers' = << >>) ]_vars

\* C2: after Clear the point list, the arc list and both angle lists are
\* empty and the two totals are 0, whatever the state before; a second Clear
\* right after changes nothing.
C2_ClearEmptiesEverything ==
  /\ [](lastOp = "clear" =>
          /\ markers = << >>
          /\ geodesicLines = << >>
          /\ angleInfo = << >>
          /\ planarAngleInfo = << >>
          /\ totalSphericalAngle = 0
          /\ totalPlanarAngle = 0)
  /\ [][(lastOp = "clear" /\ lastOp' = "clear"
         /\ handlerMarkers' = handlerMarkers)
        => UNCHANGED <<markers, geodesicLines, angleInfo, planarAngleInfo>>]_vars

\* C2 witness: a Clear has run on a state of at least three points (the
\* handler of the render before it still holds them)
C2_Witness ==
  lastOp = "clear" /\ Len(handlerMarkers) >= 3 /\ markers = << >>

\* C3: with n current points there is no arc when n < 2, and when n >= 2
\* there are n arcs, arc i from the i-th point of the HullOrderer cycle of all
\* current points to the next one, the last arc wrapping to the first point.
C3_ArcsFollowHullCycle ==
  LET n == Len(markers)
  IN IF n < 2 THEN geodesicLines = << >>
     ELSE \E hull \in calculateSphericalConvexHull(markers) :
            /\ Len(geodesicLines) = n
            /\ \A i \in 1..n :
                 /\ geodesicLines[i].start = hull.result[i].position
                 /\ geodesicLines[i].end = hull.result[(i % n) + 1].position

\* C3 witness: four points whose cycle differs from their insertion order,
\* with their four arcs
C3_Witness ==
  /\ Len(markers) = 4
  /\ Len(geodesicLines) = 4
  /\ geodesicLines[1].start # markers[1].position
  /\ geodesicLines[4].end = geodesicLines[1].start

\* C4: with n current points both angle lists hold n records when n >= 3,
\* record i for the i-th vertex of the ordered cycle, and both are empty when
\* n < 3.
C4_AngleListsMatchPoints ==
  LET n == Len(markers)
  IN IF n < 3 THEN angleInfo = << >> /\ planarAngleInfo = << >>
     ELSE \E hull \in calculateSphericalConvexHull(markers) :
            /\ Len(angleInfo) = n
            /\ Len(planarAngleInfo) = n
            /\ \A i \in 1..n :
                 /\ angleInfo[i].vertex = hull.result[i].position
                 /\ planarAngleInfo[i].vertex = hull.result[i].position

\* C4 witness: four points, reordered by the HullOrderer, with four records
\* in each list
C4_Witness ==
  /\ Len(markers) = 4
  /\ Len(angleInfo) = 4
  /\ Len(planarAngleInfo) = 4
  /\ angleInfo[1].vertex # markers[1].position

\* C5: the identifiers of the current points are pairwise distinct, and no
\* event changes the identifier of a point already in the list.
C5_IdentifiersDistinct ==
  \A i, j \in 1..Len(markers) : i # j => markers[i].id # markers[j].id

\* C6: no arc holds a sample with an undefined (NaN) coordinate, also when
\* its endpoints coincide or are antipodal.
C6_ArcSamplesDefined ==
  \A i \in 1..Len(geodesicLines) :
    \A k \in 1..Len(geodesicLines[i].points) :
      LET sample == geodesicLines[i].points[k]
      IN sample.x # NaN /\ sample.y # NaN /\ sample.z # NaN

\* the azimuth atan2(y, x) of every position, in degrees
C7_Azimuth == [p \in HullPositions |-> Atan2Deg(p.y, p.x)]

\* the azimuth of a marker
C7_Theta(m) == C7_Azimuth[m.position]

\* the wraparound comparator of the claim on two azimuths in degrees: when
\* they differ by more than 180, 360 is added to the smaller
C7_Compare(ta, tb) ==
  IF Abs(ta - tb) > 180
  THEN (IF ta < tb THEN (ta + 360) - tb ELSE ta - (tb + 360))
  ELSE ta - tb

\* the wraparound comparator orders the azimuths of ms consistently
C7_Consistent(ms) ==
  LET I == 1..Len(ms)
      c(i, j) == C7_Compare(C7_Theta(ms[i]), C7_Theta(ms[j]))
  IN /\ \A i, j \in I : (c(i, j) < 0) = (c(j, i) > 0)
     /\ \A i, j, k \in I : c(i, j) <= 0 /\ c(j, k) <= 0 => c(i, k) <= 0

\* every point of ms precedes each later one under the comparator
C7_Ascending(ms) ==
  \A i, j \in 1..Len(ms) :
    i < j => C7_Compare(C7_Theta(ms[i]), C7_Theta(ms[j])) <= 0

\* C7 as stated: the result for 4 or more points is ascending under the
\* wraparound comparator, and the azimuths <<170, -170, 0, 90>> come out as
\* <<0, 90, 170, -170>>.
C7_SortedByWraparound ==
  (hullResult # << >> /\ Len(hullInput) >= 4) =>
    /\ C7_Ascending(hullResult)
    /\ PositionsOf(hullInput) = <<az170, azm170, ex, ey>>
         => PositionsOf(hullResult) = <<ex, ey, az170, azm170>>

\* C7 amended: the result for 4 or more points is ascending under the
\* wraparound comparator, points of equal azimuth in input order, whenever
\* the comparator orders the input azimuths consistently; the azimuths
\* <<170, -170, 0, 90>> are not such an input (0 < 170 < -170 < 0).
C7_SortedWhenConsistent ==
  (hullResult # << >> /\ Len(hullInput) >= 4) =>
    /\ C7_Consistent(hullInput) =>
         /\ C7_Ascending(hullResult)
         /\ \A i, j \in 1..Len(hullResult) :
              (i < j /\ C7_Theta(hullResult[i]) = C7_Theta(hullResult[j]))
                => hullResult[i].index < hullResult[j].index
    /\ PositionsOf(hullInput) = <<az170, azm170, ex, ey>>
         => ~C7_Consistent(hullInput)

\* C7 witness: four points across the seam, consistently ordered by the
\* comparator, that the call has reordered
C7_Witness ==
  /\ Len(hullResult) >= 4
  /\ C7_Consistent(hullInput)
  /\ hullResult # hullInput
  /\ \E i, j \in 1..Len(hullInput) :
       Abs(C7_Theta(hullInput[i]) - C7_Theta(hullInput[j])) > 180

\* C8: for 1, 2 or 3 points the HullOrderer returns its input unchanged.
C8_IdentityUpToThree ==
  (hullResult # << >> /\ Len(hullInput) <= 3) => hullResult = hullInput

\* C8 witness: three points not in azimuth order, returned as given
C8_Witness ==
  /\ Len(hullInput) = 3
  /\ hullResult = hullInput
  /\ C7_Theta(hullInput[1]) > C7_Theta(hullInput[2])
  /\ C7_Theta(hullInput[2]) > C7_Theta(hullInput[3])

\* C9: the cycle the arcs are built from holds the current points, each as
\* often as the point list does, and the point list stays in insertion order:
\* index i - 1 at position i, the new point last behind the list the handler
\* started from.
C9_PermutationAndStoreKept ==
  /\ \A i \in 1..Len(markers) : markers[i].index = i - 1
  /\ (lastOp = "add" /\ handlerMarkers # markers)
       => SubSeq(markers, 1, Len(markers) - 1) = handlerMarkers
  /\ Len(markers) >= 2 =>
       /\ Len(geodesicLines) = Len(markers)
       /\ \A p \in Positions :
            ArcsFrom(geodesicLines, p) = MarkersAt(markers, p)

\* C9 witness: an AddPoint of a fourth point whose cycle is reordered while
\* the list is not
C9_Witness ==
  /\ lastOp = "add"
  /\ Len(markers) = 4
  /\ handlerMarkers = SubSeq(markers, 1, 3)
  /\ geodesicLines[1].start # markers[1].position

\* C10: the points (1,0,0), (0,1,0), (0,0,1) added in that order give 3 arcs
\* of 31 samples, 3 spherical angles of 90 degrees (sum 270), the planar
\* total 180 and the difference 90.
C10_OctantTriangle ==
  PositionsOf(markers) = <<ex, ey, ez>> =>
    /\ Len(geodesicLines) = 3
    /\ \A i \in 1..3 : Len(geodesicLines[i].points) = 31
    /\ Len(angleInfo) = 3
    /\ \A i \in 1..3 : angleInfo[i].angle = 90 /\ angleInfo[i].label = "90.0°"
    /\ totalSphericalAngle = 270
    /\ totalPlanarAngle = 180
    /\ angleDifference = 90

\* C10 witness: the third of the three points has just been added
C10_Witness ==
  /\ lastOp = "add"
  /\ PositionsOf(markers) = <<ex, ey, ez>>
  /\ Len(angleInfo) = 3

\* the sum of the angle fields of a list of records, added up left to right
RECURSIVE C11_SumOf(_)
C11_SumOf(infos) ==
  IF infos = << >> THEN 0
  ELSE LET rest == C11_SumOf(Tail(infos))
       IN IF Head(infos).angle = NaN \/ rest = NaN THEN NaN
          ELSE Head(infos).angle + rest

\* C11: with n the number of vertices of the cycle the two angle lists were
\* computed from (one record per vertex), a state with n >= 3 points reports
\* the planar total (n - 2) * 180 (360 for n = 4, 540 for n = 5), a state
\* with fewer than 3 points reports 0, and the reported difference is the
\* sum of the spherical angle records minus that total.
C11_PlanarTotalClosedForm ==
  LET n == Len(angleInfo)
  IN /\ Len(markers) >= 3 =>
          /\ n = Len(markers)
          /\ Len(planarAngleInfo) = n
          /\ totalPlanarAngle = (n - 2) * 180
          /\ n = 4 => totalPlanarAngle = 360
          /\ n = 5 => totalPlanarAngle = 540
     /\ Len(markers) < 3 => totalPlanarAngle = 0
     /\ angleDifference = IF C11_SumOf(angleInfo) = NaN THEN NaN
                           ELSE C11_SumOf(angleInfo) - totalPlanarAngle

\* C11 witness: four points are shown, the angle lists have one record for
\* each, and the planar total on screen is 360
C11_Witness ==
  /\ lastOp = "add"
  /\ Len(markers) = 4
  /\ Len(angleInfo) = 4
  /\ totalPlanarAngle = 360
  /\ angleDifference = totalSphericalAngle - 360

\* the neighbour q lies in the direction of the vertex p or opposite to it
C12_Aligned(p, q) == Cross(p, q) = Vec(0, 0, 0)

\* vertex i of the cycle has a predecessor or a successor that lies in the
\* vertex's own direction or opposite to it
C12_Degenerate(cycle, i) ==
  LET n == Len(cycle)
  IN \/ C12_Aligned(cycle[i].position, cycle[PrevIndex(i, n)].position)
     \/ C12_Aligned(cycle[i].position, cycle[NextIndex(i, n)].position)

\* C12: calculateSphericalAngles returns one record for every vertex of the
\* cycle, and the record of a vertex whose predecessor or successor lies in
\* the vertex's own direction or opposite to it (the same point added twice)
\* is the angle 0 with the label "0.0°".
C12_DegenerateAngle ==
  angleResult # << >> =>
    /\ Len(angleResult) = Len(angleInput)
    /\ \A i \in 1..Len(angleInput) :
         /\ angleResult[i].vertex = angleInput[i].position
         /\ C12_Degenerate(angleInput, i) =>
              /\ angleResult[i].angle = 0
              /\ angleResult[i].label = "0.0°"

\* the three points of ms as clicking them in the opposite order stores them
C13_Opposite(ms) ==
  MarkersOf(<<ms[3].position, ms[2].position, ms[1].position>>)

\* s = (v1 x v2) . V at vertex i of the cycle ms
C13_S(ms, i) ==
  LET V  == Normalize(ms[i].position)
      v1 == tangentVector(V, Normalize(ms[PrevIndex(i, Len(ms))].position))
      v2 == tangentVector(V, Normalize(ms[NextIndex(i, Len(ms))].position))
  IN Dot(Cross(v1, v2), V)

\* C13: every reported spherical angle lies in [0, 360]; three points are
\* shown in click order, and against the records of the same three points
\* clicked in the opposite order, every vertex with s # 0 carries 360 minus
\* the other angle; when s # 0 at all three vertices the two sums are S and
\* 1080 - S and they differ.
C13_ClickOrderFlipsAngles ==
  /\ \A i \in 1..Len(angleInfo) : angleInfo[i].angle \in 0..360
  /\ Len(markers) = 3 =>
       LET opposite == calculateSphericalAngles(C13_Opposite(markers))
       IN /\ \A i \in 1..3 :
               /\ angleInfo[i].vertex = markers[i].position
               /\ opposite[4 - i].vertex = markers[i].position
               /\ C13_S(markers, i) # 0 =>
                    opposite[4 - i].angle = 360 - angleInfo[i].angle
          /\ (\A i \in 1..3 : C13_S(markers, i) # 0) =>
               /\ SumAngles(opposite, 1) = 1080 - totalSphericalAngle
               /\ SumAngles(opposite, 1) # totalSphericalAngle

\* C13 witness: the octant triangle clicked as z, y, x reports 270 at each
\* vertex, sum 810, where the order x, y, z reports 90 each, sum 270
C13_Witness ==
  /\ lastOp = "add"
  /\ PositionsOf(markers) = <<ez, ey, ex>>
  /\ \A i \in 1..3 : C13_S(markers, i) > 0 /\ angleInfo[i].angle = 270
  /\ totalSphericalAngle = 810

=============================================================================
